---- MODULE Spec2Model ----
(***************************************************************************)
(* Model of the open_notebook domain layer: the ObjectModel persistence    *)
(* framework (domain/base.py), the content entities and the indexing       *)
(* pipeline (domain/notebook.py), the model registry (domain/models.py)    *)
(* and the repository primitives (database/repository.py).                 *)
(*                                                                         *)
(* A text is a sequence of segments (string tokens).  An embedding vector  *)
(* is <<provider, text>> (non-empty) or <<>> (the empty vector).  The      *)
(* variables named "history" record what has happened and are read by no   *)
(* guard.                                                                  *)
(***************************************************************************)
EXTENDS Integers, Sequences, FiniteSets, TLC

(***************************************************************************)
(* Bounds of the model.                                                    *)
(***************************************************************************)
MaxChunks == 3      \* longest full_text (in chunks) of the vectorize specification
PoolChunks == 9     \* longest full_text (in chunks) of the worker-pool specification
MaxRuns == 2        \* vectorize() calls per behaviour
MaxSwitches == 1    \* set_embedding_model() calls per behaviour
MaxFaults == 1      \* failures injected into the collaborators per behaviour
MaxCalls == 3       \* add_insight() calls per behaviour
MaxClock == 5       \* last tick of the wall clock
MaxSaves == 2       \* successful save() calls per object
TicksPerSecond == 2 \* clock ticks in one second, the resolution of "%H:%M:%S"
MaxRows == 3        \* most rows of one table in the listing specification
MaxItems == 2       \* longest list in the values given to the type normalizer
MaxDelOps == 3      \* delete() and relate() calls per behaviour
MaxRecOps == 3      \* RecordModel operations and foreign writes per behaviour

(***************************************************************************)
(* Program constants.                                                      *)
(***************************************************************************)
max_workers == 8    \* ThreadPoolExecutor(max_workers=8)
NanosPerSecond == 1000000000    \* int(value.timestamp) // 1_000_000_000

None == "None"
Providers == {"p1", "p2"}
SourceId == "source:1"
Callers == {"c1", "c2"}     \* the threads that call add_insight

VARIABLES
    embedding_model,    \* model_manager._embedding_model
    switches,           \* set_embedding_model() calls made
    faults,             \* failures the collaborators have raised so far
    source_embedding,   \* rows of table source_embedding, in insertion order
    full_text,          \* Source.full_text of the source that is vectorized
    vpc,                \* where the vectorize() call is
    vmodel,             \* vectorize's local current_embedding_model
    chunks,             \* vectorize's local chunks
    fut,                \* state of the future of each chunk task
    futres,             \* result of each finished chunk task
    collected,          \* how many results the caller has taken from executor.map
    vbase,              \* number of source_embedding rows when the call began
    vresult,            \* how the last vectorize() call ended
    runs,               \* vectorize() calls begun
    embedCalls,         \* history: embed() calls made for each chunk task
    completion,         \* history: chunk tasks in the order they finished
    history,            \* whether the completion history is recorded
    embedRaised,        \* history: chunk tasks whose process_chunk raised
    peak,               \* history: most chunk tasks in progress at once
    source_insight,     \* rows of table source_insight, in creation order
    ipc,                \* where each caller's add_insight() call is
    iargs,              \* each caller's (self.id, insight_type, content)
    imodel,             \* each caller's local current_embedding_model
    ifound,             \* each caller's existing_insights: a row id, or 0 for none
    iresult,            \* how each caller's last add_insight() call ended
    calls,              \* add_insight() calls begun
    lastWritten,        \* history: content of the last successful call, per pair
    clock,              \* the wall clock (datetime.now()), in ticks
    rows,               \* the entity rows of the store
    nextKey,            \* the store's next generated record key
    mem,                \* the in-memory entity objects
    sresult,            \* how each object's last save() ended
    saves,              \* history: successful save() calls of each object
    getres,             \* the last get() call and how it ended
    listres,            \* the last get_all() call and how it ended
    _instances,         \* RecordModel._instances: the cached object of each type, 0 for none
    heap,               \* the RecordModel objects allocated so far
    recrow,             \* the store's row of each record_id
    recres,             \* the last RecordModel operation and how it ended
    loads,              \* history: loads of the row by __init__, per type
    upserts,            \* history: repo_upsert calls, per type
    recops,             \* RecordModel operations and foreign writes so far
    ndata,              \* the mapping given to _convert_surreal_types
    nout,               \* what _convert_surreal_types returned for ndata
    nagain,             \* what it returned when applied to nout
    edges,              \* the relation rows of the store, in creation order
    delres,             \* the last delete() or relate() call and how it ended
    stmts,              \* history: the statements delete() and relate() gave the store
    dops                \* delete() and relate() calls made

envVars == <<embedding_model, switches, faults>>
vecVars == <<source_embedding, full_text, vpc, vmodel, chunks, fut, futres, collected,
             vbase, vresult, runs, embedCalls, completion, history, embedRaised, peak>>
insVars == <<source_insight, ipc, iargs, imodel, ifound, iresult, calls, lastWritten>>
objVars == <<clock, rows, nextKey, mem, sresult, saves, getres>>
listVars == <<listres>>
recVars == <<_instances, heap, recrow, recres, loads, upserts, recops>>
normVars == <<ndata, nout, nagain>>
delVars == <<edges, delres, stmts, dops>>
extVars == <<listVars, recVars, normVars, delVars>>
nonListVars == <<envVars, vecVars, insVars, objVars, recVars, normVars, delVars>>
nonRecVars == <<envVars, vecVars, insVars, objVars, listVars, normVars, delVars>>
nonNormVars == <<envVars, vecVars, insVars, objVars, listVars, recVars, delVars>>
nonVecVars == <<insVars, objVars, extVars>>
nonInsVars == <<vecVars, objVars, extVars>>
nonObjVars == <<vecVars, insVars, extVars>>
nonEnvVars == <<vecVars, insVars, objVars, extVars>>

vars == <<envVars, vecVars, insVars, objVars, extVars>>

(***************************************************************************)
(* Collaborators that are not part of the source tree.                     *)
(***************************************************************************)
\* utils.surreal_clean: escapes the ':' of a leading "k:v" segment.
surreal_clean(text) ==
    IF text # <<>> /\ text[1] = "k:v" THEN <<"k\\:v">> \o Tail(text) ELSE text

\* utils.split_text: one chunk per non-blank segment, in text order.
split_text(text) ==
    LET kept == SelectSeq(text, LAMBDA seg : seg # " ")
    IN  [i \in 1..Len(kept) |-> <<kept[i]>>]

\* The provider's embed([text])[0]: a non-empty vector.
embed(model, text) == <<model, text>>

\* current_embedding_model.embed([content])[0] if current_embedding_model else []
\* (variant: embed is called on the model even when there is none)
embedding_unguarded(model, content) == embed(model, content)
embedding_or_empty(model, content) == IF model # None THEN embed(model, content) ELSE <<>>

\* The segments full texts are made of: all different, so that every chunk of
\* one text differs from the others; the second one is changed by surreal_clean.
Segments == <<"s0", "k:v", "s2", "s3", "s4", "s5", "s6", "s7", "s8", "s9", "s10", "s11">>

\* A full text of n segments.
Doc(n) == [i \in 1..n |-> Segments[((i - 1) % Len(Segments)) + 1]]

\* Source.full_text = None (kept a sequence, like every other text).
NoText == <<"None">>

\* The values of Source.full_text: unset, empty, blank, and texts of 1..n chunks.
FullTexts(n) == {NoText, <<>>, <<" ">>} \cup {Doc(k) : k \in 1..n}


(***************************************************************************)
(* The model registry (domain/models.py).                                  *)
(***************************************************************************)
\* ModelManager.set_embedding_model
set_embedding_model(m) ==
    /\ switches < MaxSwitches
    /\ m # embedding_model
    /\ embedding_model' = m
    /\ switches' = switches + 1
    /\ UNCHANGED <<faults, nonEnvVars>>

\* The local current_embedding_model of vectorize() and add_insight(): the
\* provider the call read from the registry in its first statement.
\* (variant: model_manager.embedding_model is read again at each use)
current_embedding_model_reread(captured) == embedding_model
current_embedding_model(captured) == captured

(***************************************************************************)
(* Source.vectorize (domain/notebook.py).                                  *)
(***************************************************************************)
Raised == <<"raised">>     \* a task whose function raised
NoResult == <<>>            \* a task that has not finished

\* list(enumerate(chunks)): the (index, chunk) tasks, indices from 0.
\* (variant: list(enumerate(chunks, 1)), indices from 1)
chunk_tasks_from1(cs) == [i \in 1..Len(cs) |-> <<i, cs[i]>>]
chunk_tasks(cs) == [i \in 1..Len(cs) |-> <<i - 1, cs[i]>>]

\* process_chunk((idx, chunk)) with the provider `model`; `fails` says whether the
\* provider's embed() raises.  A missing provider raises (None has no embed).
\* (variant: the failure is swallowed and the chunk gets empty fields)
process_chunk_skip(task, model, fails) ==
    IF model = None \/ fails THEN <<task[1], <<>>, <<>>>>
    ELSE <<task[1], embed(model, task[2]), surreal_clean(task[2])>>
process_chunk(task, model, fails) ==
    IF model = None \/ fails THEN Raised
    ELSE <<task[1], embed(model, task[2]), surreal_clean(task[2])>>

Running == {i \in 1..Len(fut) : fut[i] = "running"}
Queued == {i \in 1..Len(fut) : fut[i] = "queued"}
Min(S) == CHOOSE x \in S : \A y \in S : x <= y

\* The rows this call has inserted so far.
RunRows == SubSeq(source_embedding, vbase + 1, Len(source_embedding))

\* The chunks of the call: none when `not self.full_text`, else split_text's.
\* (variant: the text is split without the test of full_text)
chunks_of_unguarded(text) == split_text(text)
chunks_of(text) == IF text \in {NoText, <<>>} THEN <<>> ELSE split_text(text)

\* The source's rows when the call starts to work: vectorize() issues no
\* statement on the rows of earlier calls.
\* (variant: the call first deletes the rows of earlier calls)
rows_at_start_cleared == <<>>
rows_at_start == source_embedding

\* vectorize() up to the submission of the chunk tasks to the pool.
VectorizeBegin ==
    /\ vpc = "idle"
    /\ runs < MaxRuns
    /\ runs' = runs + 1
    /\ vmodel' = embedding_model
    /\ source_embedding' = rows_at_start
    /\ vbase' = Len(rows_at_start)
    /\ LET cs == chunks_of(full_text)
       IN  /\ chunks' = cs
           /\ fut' = [i \in 1..Len(cs) |-> "queued"]
           /\ futres' = [i \in 1..Len(cs) |-> NoResult]
           /\ embedCalls' = [i \in 1..Len(cs) |-> 0]
           /\ IF Len(cs) = 0
              THEN vpc' = "idle" /\ vresult' = "returned"
              ELSE vpc' = "embedding" /\ vresult' = "none"
    /\ collected' = 0
    /\ completion' = <<>>
    /\ embedRaised' = {}
    /\ peak' = 0
    /\ UNCHANGED <<full_text, history, envVars, nonVecVars>>

\* A pool worker takes the next task of the executor's work queue.
\* (variant: a pool without the max_workers limit)
WorkerTake_unbounded ==
    /\ vpc = "embedding"
    /\ Queued # {}
    /\ fut' = [fut EXCEPT ![Min(Queued)] = "running"]
    /\ embedCalls' = [embedCalls EXCEPT ![Min(Queued)] = @ + 1]
    /\ peak' = IF Cardinality(Running) + 1 > peak THEN Cardinality(Running) + 1 ELSE peak
    /\ UNCHANGED <<source_embedding, full_text, vpc, vmodel, chunks, futres, collected,
                   vbase, vresult, runs, completion, history, embedRaised, envVars,
                   nonVecVars>>
WorkerTake ==
    /\ vpc = "embedding"
    /\ Queued # {}
    /\ Cardinality(Running) < max_workers
    /\ fut' = [fut EXCEPT ![Min(Queued)] = "running"]
    /\ embedCalls' = [embedCalls EXCEPT ![Min(Queued)] = @ + 1]
    /\ peak' = IF Cardinality(Running) + 1 > peak THEN Cardinality(Running) + 1 ELSE peak
    /\ UNCHANGED <<source_embedding, full_text, vpc, vmodel, chunks, futres, collected,
                   vbase, vresult, runs, completion, history, embedRaised, envVars,
                   nonVecVars>>

\* A worker finishes process_chunk for task i.
WorkerFinish(i, fails) ==
    /\ vpc \in {"embedding", "shutdown"}
    /\ i \in Running
    /\ fails => vmodel # None /\ faults < MaxFaults
    /\ LET r == process_chunk(chunk_tasks(chunks)[i], current_embedding_model(vmodel), fails)
       IN  /\ futres' = [futres EXCEPT ![i] = r]
           /\ fut' = [fut EXCEPT ![i] = IF r = Raised THEN "failed" ELSE "ok"]
    /\ completion' = IF history THEN Append(completion, i) ELSE completion
    /\ embedRaised' = IF vmodel = None \/ fails THEN embedRaised \cup {i} ELSE embedRaised
    /\ faults' = IF fails THEN faults + 1 ELSE faults
    /\ UNCHANGED <<source_embedding, full_text, vpc, vmodel, chunks, collected, vbase,
                   vresult, runs, embedCalls, history, peak, embedding_model, switches,
                   nonVecVars>>

\* list(executor.map(...)) with n results taken: the insert loop starts when the
\* iterator is exhausted.
\* (variant: the loop iterates executor.map itself and starts with one result)
map_exhausted_lazy(n) == n >= 1
map_exhausted(n) == n = Len(fut)

\* The caller takes the next result of executor.map, in submission order; a
\* raised result ends the iteration, which cancels the tasks not yet started.
Collect ==
    /\ vpc = "embedding"
    /\ collected < Len(fut)
    /\ fut[collected + 1] \in {"ok", "failed"}
    /\ IF fut[collected + 1] = "ok"
       THEN /\ collected' = collected + 1
            /\ vpc' = IF map_exhausted(collected + 1) THEN "inserting" ELSE "embedding"
            /\ fut' = fut
       ELSE /\ collected' = collected
            /\ vpc' = "shutdown"
            /\ fut' = [i \in 1..Len(fut) |-> IF fut[i] = "queued" THEN "cancelled" ELSE fut[i]]
    /\ UNCHANGED <<source_embedding, full_text, vmodel, chunks, futres, vbase, vresult,
                   runs, embedCalls, completion, history, embedRaised, peak, envVars,
                   nonVecVars>>

\* The executor's shutdown has waited for the running workers; the exception
\* reaches vectorize's handler, which raises DatabaseOperationError.
VectorizeFail ==
    /\ vpc = "shutdown"
    /\ Running = {}
    /\ vpc' = "idle"
    /\ vresult' = "DatabaseOperationError"
    /\ UNCHANGED <<source_embedding, full_text, vmodel, chunks, fut, futres, collected,
                   vbase, runs, embedCalls, completion, history, embedRaised, peak,
                   envVars, nonVecVars>>

\* The results list the insert loop iterates.
\* (variant: the results in completion order, as as_completed would give them)
ResultsAsCompleted == [k \in 1..Len(completion) |-> futres[completion[k]]]
Results == [k \in 1..collected |-> futres[k]]

\* The rows after vectorize's exception handler: it logs and raises, the rows
\* inserted before the failure stay.
\* (variant: the handler deletes the rows this call inserted)
rows_after_failed_insert_rollback == SubSeq(source_embedding, 1, vbase)
rows_after_failed_insert == source_embedding

\* One iteration of the insert loop: CREATE source_embedding CONTENT {...}.
InsertChunk(fails) ==
    /\ vpc = "inserting"
    /\ fails => faults < MaxFaults
    /\ LET k == Len(RunRows) + 1
           r == Results[k]
       IN  IF fails
           THEN /\ vpc' = "idle"
                /\ vresult' = "DatabaseOperationError"
                /\ faults' = faults + 1
                /\ source_embedding' = rows_after_failed_insert
           ELSE /\ source_embedding' = Append(source_embedding,
                        [source |-> SourceId, order |-> r[1], content |-> r[3],
                         embedding |-> r[2]])
                /\ vpc' = IF k = Len(Results) THEN "idle" ELSE "inserting"
                /\ vresult' = IF k = Len(Results) THEN "returned" ELSE vresult
                /\ UNCHANGED faults
    /\ UNCHANGED <<full_text, vmodel, chunks, fut, futres, collected, vbase, runs,
                   embedCalls, completion, history, embedRaised, peak, embedding_model,
                   switches, nonVecVars>>

(***************************************************************************)
(* Source.add_insight (domain/notebook.py).                                *)
(***************************************************************************)
Sources == {"source:1", "source:2"}
InsightTypes == {"summary", "topics"}
Contents == {<<"A">>, <<"k:v", "B">>}
NoArgs == <<"", "", <<>>>>

\* The ids of the rows of the pair (src, t).
PairRows(src, t) ==
    {k \in 1..Len(source_insight) :
        source_insight[k].source = src /\ source_insight[k].insight_type = t}
\* (variant: a WHERE clause without the insight_type)
RowsOfSource(src, t) ==
    {k \in 1..Len(source_insight) : source_insight[k].source = src}

\* SELECT * FROM source_insight WHERE source = $source_id AND insight_type =
\* $insight_type ORDER BY created DESC LIMIT 1: the id of the row, 0 for none.
Matching(src, t) == PairRows(src, t)
existing_insights(src, t) ==
    LET M == Matching(src, t)
    IN  IF M = {} THEN 0
        ELSE CHOOSE k \in M : \A j \in M : source_insight[j].created <= source_insight[k].created

\* The store's clock (time::now()): the latest timestamp it has written.
StoreTime ==
    LET stamps == {source_insight[k].updated : k \in 1..Len(source_insight)}
    IN  IF stamps = {} THEN 0 ELSE CHOOSE x \in stamps : \A y \in stamps : y <= x

\* add_insight() up to the lookup of the existing insight.
AddInsightLookup(p, src, t, c, fails) ==
    /\ ipc[p] = "idle"
    /\ calls < MaxCalls
    /\ calls' = calls + 1
    /\ imodel' = [imodel EXCEPT ![p] = embedding_model]
    /\ iargs' = [iargs EXCEPT ![p] = <<src, t, c>>]
    /\ fails => t # "" /\ c # <<>> /\ faults < MaxFaults
    /\ IF t = "" \/ c = <<>>
       THEN /\ iresult' = [iresult EXCEPT ![p] = "InvalidInputError"]
            /\ UNCHANGED <<ipc, ifound, faults>>
       ELSE IF fails
       THEN /\ iresult' = [iresult EXCEPT ![p] = "StorageError"]
            /\ faults' = faults + 1
            /\ UNCHANGED <<ipc, ifound>>
       ELSE /\ iresult' = [iresult EXCEPT ![p] = "none"]
            /\ ifound' = [ifound EXCEPT ![p] = existing_insights(src, t)]
            /\ ipc' = [ipc EXCEPT ![p] = "looked"]
            /\ UNCHANGED faults
    /\ UNCHANGED <<source_insight, lastWritten, embedding_model, switches, nonInsVars>>

\* The row the write acts on: the one the lookup found.
\* (variant: a write conditional on a lookup made at the time of the write)
TargetAtWrite(p) == existing_insights(iargs[p][1], iargs[p][2])
Target(p) == ifound[p]

\* UPDATE $insight_id SET {...}: the rows the statement changes.
\* (variant: UPDATE source_insight ... WHERE source = .. AND insight_type = ..)
updated_rows_of_pair(p) == PairRows(iargs[p][1], iargs[p][2])
updated_rows(p) == {Target(p)}

\* The rest of add_insight(): the embedding, then the UPDATE of the row found or
\* the CREATE of a new row.  `fails` is "no", "embed" or "store".
AddInsightWrite(p, fails) ==
    /\ ipc[p] = "looked"
    /\ fails # "no" => faults < MaxFaults
    /\ fails = "embed" => imodel[p] # None
    /\ ipc' = [ipc EXCEPT ![p] = "idle"]
    /\ LET src == iargs[p][1]
           t == iargs[p][2]
           c == iargs[p][3]
           embedding == embedding_or_empty(current_embedding_model(imodel[p]), c)
           id == Target(p)
       IN  IF fails # "no"
           THEN /\ iresult' = [iresult EXCEPT ![p] =
                                  IF fails = "embed" THEN "ProviderError" ELSE "StorageError"]
                /\ faults' = faults + 1
                /\ UNCHANGED <<source_insight, lastWritten>>
           ELSE /\ iresult' = [iresult EXCEPT ![p] = "returned"]
                /\ lastWritten' = [lastWritten EXCEPT ![<<src, t>>] = c]
                /\ UNCHANGED faults
                /\ IF id # 0
                   THEN source_insight' =
                            [k \in 1..Len(source_insight) |->
                               IF k \in updated_rows(p)
                               THEN [source_insight[k] EXCEPT
                                        !.content = surreal_clean(c),
                                        !.embedding = embedding,
                                        !.updated = StoreTime + 1]
                               ELSE source_insight[k]]
                   ELSE source_insight' = Append(source_insight,
                            [source |-> src, insight_type |-> t,
                             content |-> surreal_clean(c), embedding |-> embedding,
                             created |-> StoreTime + 1, updated |-> StoreTime + 1])
    /\ UNCHANGED <<iargs, imodel, ifound, calls, embedding_model, switches, nonInsVars>>

(***************************************************************************)
(* ObjectModel (domain/base.py) and its entity types.                      *)
(*                                                                         *)
(* A record id "table:key" is the sequence <<table, key>> of its           *)
(* colon-separated parts; <<>> is the unset id.  Every entity type has one *)
(* text field here: Notebook.name, Note.content, Source.title, ...         *)
(***************************************************************************)
NoId == <<>>
NoTime == 0 - 1             \* created / updated = None
Missing == "Missing"        \* a key a row does not have
NoVector == <<"Missing">>   \* a row without the embedding key

\* ObjectModel.__subclasses__(), transitively, in definition order.
AllSubclasses ==
    <<"Notebook", "SourceEmbedding", "SourceInsight", "Source", "Note", "ChatSession",
      "Transformation", "PodcastEpisode", "PodcastConfig">>
Classes == {"ObjectModel"} \cup {AllSubclasses[i] : i \in 1..Len(AllSubclasses)}

\* The table_name class attribute.
table_name ==
    [c \in Classes |->
        CASE c = "ObjectModel" -> ""
          [] c = "Notebook" -> "notebook"
          [] c = "SourceEmbedding" -> "source_embedding"
          [] c = "SourceInsight" -> "source_insight"
          [] c = "Source" -> "source"
          [] c = "Note" -> "note"
          [] c = "ChatSession" -> "chat_session"
          [] c = "Transformation" -> "transformation"
          [] c = "PodcastEpisode" -> "podcast_episode"
          [] c = "PodcastConfig" -> "podcast_config"]

\* The types whose text field is required (declared `str`).
RequiresText ==
    {"Notebook", "SourceEmbedding", "SourceInsight", "Transformation", "PodcastEpisode",
     "PodcastConfig"}
\* The types whose field validator rejects a blank text.
RejectsBlank == {"Notebook", "Note"}

\* str.strip() of the texts of the model: "" and " " strip to "".
strip(text) == IF text = " " THEN "" ELSE text

\* The construction or validation of an instance of c with text field `text`.
\* (variant: the field validators are not run)
Validate_declared_only(c, text) ==
    IF c \in RequiresText /\ text \in {Missing, None} THEN "ValidationError"
    ELSE "ok"
Validate(c, text) ==
    IF c \in RequiresText /\ text \in {Missing, None} THEN "ValidationError"
    ELSE IF c \in RejectsBlank /\ text \notin {Missing, None} /\ strip(text) = ""
    THEN "InvalidInputError"
    ELSE "ok"

\* ObjectModel._get_class_by_table_name: the first subclass with that table.
_get_class_by_table_name(table) ==
    LET hits == {i \in 1..Len(AllSubclasses) : table_name[AllSubclasses[i]] = table}
    IN  IF hits = {} THEN None ELSE AllSubclasses[Min(hits)]

\* get(): the type that is instantiated; None when no type declares the table.
\* (variant: always the type the call is made on)
target_class_static(cls, table) == cls
target_class(cls, table) ==
    IF table_name[cls] # "" /\ table_name[cls] = table THEN cls
    ELSE _get_class_by_table_name(table)

\* repo_query("SELECT * FROM <id>")
SelectById(id) == {r \in rows : r.id = id}

\* The try block of get(): <<"returned", type>>, or <<the exception raised, "">>.
get_try(cls, id, fails) ==
    LET table == id[1]
        target == target_class(cls, table)
        result == SelectById(id)
    IN  IF target = None THEN <<"InvalidInputError", "">>
        ELSE IF fails THEN <<"StorageError", "">>
        ELSE IF result = {} THEN <<"NotFoundError", "">>
        ELSE LET row == CHOOSE r \in result : TRUE
                 built == Validate(target, row.text)
             IN  IF built = "ok" THEN <<"returned", target>> ELSE <<built, "">>

\* ObjectModel.get: every exception of the try block is raised as NotFoundError.
\* (variant: the exceptions of the try block reach the caller as they are)
get_unwrapped(cls, id, fails) ==
    IF id = NoId THEN <<"InvalidInputError", "">> ELSE get_try(cls, id, fails)
get(cls, id, fails) ==
    IF id = NoId THEN <<"InvalidInputError", "">>
    ELSE IF get_try(cls, id, fails)[1] = "returned" THEN get_try(cls, id, fails)
    ELSE <<"NotFoundError", "">>

\* A call cls.get(id); `fails` says whether the store raises.
Get(cls, id, fails) ==
    /\ fails => id # NoId /\ target_class(cls, id[1]) # None
    /\ getres' = [cls |-> cls, id |-> id, fails |-> fails,
                  outcome |-> get(cls, id, fails)[1], type |-> get(cls, id, fails)[2]]
    /\ UNCHANGED <<clock, rows, nextKey, mem, sresult, saves, envVars, nonObjVars>>

\* The in-memory objects of the save specification, and the type of each.
Objs == {"a_note", "a_notebook"}
ClassOf(o) ==
    CASE o = "a_note" -> "Note"
      [] o = "an_insight" -> "SourceInsight"
      [] o = "an_embedding" -> "SourceEmbedding"
      [] OTHER -> "Notebook"

\* needs_embedding() and get_embedding_content() (overridden by Note).
needs_embedding(c) == c = "Note"
get_embedding_content(c, e) == IF c = "Note" THEN e.text ELSE None

\* datetime.strftime("%Y-%m-%d %H:%M:%S"): the time to the second.
strftime(t) == t \div TicksPerSecond

\* save(), update branch: data["created"] is the object's created.
\* (variant: the update branch stamps created with the clock)
created_now(e, now) == strftime(now)
created_for_update(e, now) == e.created

\* repo_update(id, data), "UPDATE $id CONTENT $data": the record's content
\* becomes data; a field of the old record that data lacks is gone.
\* (variant: UPDATE $id MERGE $data, which keeps the fields data lacks)
repo_update_merge(id, data) ==
    {r \in rows : r.id # id} \cup
       {[f \in DOMAIN old \cup DOMAIN data |->
           IF f \notin DOMAIN data THEN old[f]
           ELSE IF f = "embedding" /\ data[f] = NoVector THEN old[f]
           ELSE IF f = "text" /\ data[f] = Missing THEN old[f]
           ELSE data[f]] : old \in {r \in rows : r.id = id}}
repo_update(id, data) == {r \in rows : r.id # id} \cup {data}

\* datetime.now() passes.
Tick ==
    /\ clock < MaxClock
    /\ clock' = clock + 1
    /\ UNCHANGED <<rows, nextKey, mem, sresult, saves, getres, envVars, nonObjVars>>

\* The caller assigns the object's text field.
SetText(o, text) ==
    /\ mem[o].text # text
    /\ mem' = [mem EXCEPT ![o].text = text]
    /\ UNCHANGED <<clock, rows, nextKey, sresult, saves, getres, envVars, nonObjVars>>

\* ObjectModel.save.  `fails` is "no", "embed" or "store"; now2 is the clock
\* when the create branch reads it, after `updated` was read.
Save(o, fails, now2) ==
    LET e == mem[o]
        c == ClassOf(o)
        content == get_embedding_content(c, e)
        embeds == needs_embedding(c) /\ content \notin {None, ""}
        embedding == IF ~embeds THEN NoVector
                     ELSE embedding_or_empty(embedding_model, content)
        row == [id |-> IF e.id = NoId THEN <<table_name[c], nextKey>> ELSE e.id,
                text |-> IF e.text = None THEN Missing ELSE e.text,
                updated |-> strftime(clock),
                created |-> IF e.id = NoId THEN strftime(now2)
                            ELSE created_for_update(e, now2),
                embedding |-> embedding]
    IN  /\ saves[o] < MaxSaves
        /\ now2 >= clock
        /\ fails # "no" => faults < MaxFaults /\ Validate(c, e.text) = "ok"
        /\ fails = "embed" => embeds /\ embedding_model # None
        /\ IF Validate(c, e.text) # "ok"
           THEN /\ sresult' = [sresult EXCEPT ![o] = Validate(c, e.text)]
                /\ now2 = clock
                /\ UNCHANGED <<clock, rows, nextKey, mem, saves, faults>>
           ELSE IF fails # "no"
           THEN /\ sresult' = [sresult EXCEPT ![o] =
                                  IF fails = "embed" THEN "ProviderError" ELSE "StorageError"]
                /\ faults' = faults + 1
                /\ clock' = now2
                /\ UNCHANGED <<rows, nextKey, mem, saves>>
           ELSE /\ sresult' = [sresult EXCEPT ![o] = "returned"]
                /\ rows' = IF e.id = NoId THEN rows \cup {row} ELSE repo_update(row.id, row)
                /\ nextKey' = IF e.id = NoId THEN nextKey + 1 ELSE nextKey
                /\ mem' = [mem EXCEPT ![o] =
                             [id |-> row.id, created |-> row.created,
                              updated |-> row.updated,
                              text |-> IF row.text = Missing THEN e.text ELSE row.text]]
                /\ saves' = [saves EXCEPT ![o] = @ + 1]
                /\ clock' = now2
                /\ UNCHANGED faults
        /\ UNCHANGED <<getres, embedding_model, switches, nonObjVars>>

(***************************************************************************)
(* ObjectModel.get_all (domain/base.py).                                   *)
(***************************************************************************)
\* The rows of a table.
TableRows(table) == {r \in rows : r.id # NoId /\ r.id[1] = table}

\* Whether the store returns row a before row b: by key without ORDER BY, by
\* `updated` (latest first, then by key) with ORDER BY updated desc.
Before(a, b, order_by) ==
    IF order_by = None THEN a.id[2] < b.id[2]
    ELSE a.updated > b.updated \/ (a.updated = b.updated /\ a.id[2] < b.id[2])

\* repo_query("SELECT * FROM <table> [ORDER BY <order_by>]")
SelectAll(table, order_by) ==
    LET S == TableRows(table)
        n == Cardinality(S)
    IN  CHOOSE q \in [1..n -> S] :
            \A i, j \in 1..n : i < j => Before(q[i], q[j], order_by)

\* The loop of get_all over the rows k..Len(result): a row that cannot be
\* constructed is skipped, the others are appended in turn.
\* (variant: a row that cannot be constructed ends the listing with nothing)
RECURSIVE get_all_loop(_, _, _, _)
get_all_loop_strict(cls, result, k, objects) ==
    IF \E i \in 1..Len(result) : Validate(cls, result[i].text) # "ok" THEN <<>>
    ELSE result
get_all_loop(cls, result, k, objects) ==
    IF k > Len(result) THEN objects
    ELSE IF Validate(cls, result[k].text) = "ok"
         THEN get_all_loop(cls, result, k + 1, Append(objects, result[k]))
         ELSE get_all_loop(cls, result, k + 1, objects)

\* A call cls.get_all(order_by); `fails` says whether the store raises.
GetAll(cls, order_by, fails) ==
    /\ fails => table_name[cls] # ""
    /\ listres' =
         IF table_name[cls] = "" \/ fails
         THEN [cls |-> cls, order_by |-> order_by, fails |-> fails,
               outcome |-> "DatabaseOperationError", result |-> <<>>, objects |-> <<>>]
         ELSE LET result == SelectAll(table_name[cls], order_by)
              IN  [cls |-> cls, order_by |-> order_by, fails |-> fails,
                   outcome |-> "returned", result |-> result,
                   objects |-> get_all_loop(cls, result, 1, <<>>)]
    /\ UNCHANGED nonListVars

(***************************************************************************)
(* RecordModel (domain/base.py).                                           *)
(*                                                                         *)
(* A RecordModel type has the fields of RecFields; a field map (kwargs,    *)
(* model_dict, a row) gives each field a value or Missing.  An object is   *)
(* its position in `heap`.                                                 *)
(***************************************************************************)
\* The RecordModel types: DefaultPrompts (auto_save = False, the default) and
\* a type that sets auto_save = True.
RecordTypes == {"DefaultPrompts", "AutoSaved"}
auto_save(t) == t = "AutoSaved"

RecFields == <<"x", "y">>
RecFieldSet == {RecFields[i] : i \in 1..Len(RecFields)}
RecVals == {"1", "2"}
FieldMaps == [RecFieldSet -> RecVals \cup {Missing}]
NoRow == [f \in RecFieldSet |-> Missing]
Given(map) == {f \in RecFieldSet : map[f] # Missing}

\* dict.update(map) / the assignment of each entry of map.
Merged(fields, map) == [f \in RecFieldSet |-> IF map[f] # Missing THEN map[f] ELSE fields[f]]

\* RecordModel.update: the upsert of all the fields, then the re-read of the
\* row into the fields the object has.  st = [fields, row, upserts].
\* (variant: no upsert is made)
update_nothing(st) == st
update(st) ==
    LET row == st.fields
    IN  [fields |-> Merged(st.fields, row), row |-> row, upserts |-> st.upserts + 1]

\* setattr(instance, f, v): the validated assignment, after which
\* auto_save_validator calls update() when the type has auto_save.
setattr(t, st, f, v) ==
    LET assigned == [st EXCEPT !.fields[f] = v]
    IN  IF auto_save(t) THEN update(assigned) ELSE assigned

\* for key, value in map.items(): setattr(instance, key, value), from entry i.
RECURSIVE setattr_each(_, _, _, _)
setattr_each(t, st, map, i) ==
    IF i > Len(RecFields) THEN st
    ELSE IF map[RecFields[i]] = Missing THEN setattr_each(t, st, map, i + 1)
    ELSE setattr_each(t, setattr(t, st, RecFields[i], map[RecFields[i]]), map, i + 1)

\* The state the methods of the cached object of t act on.
RecState(t) ==
    [fields |-> heap[_instances[t]].fields, row |-> recrow[t], upserts |-> upserts[t]]

\* __init__: whether the object is loaded from the store.
\* (variant: every construction loads)
needs_init_always(obj) == TRUE
needs_init(obj) == ~heap[obj].initialized

\* The construction t(**kwargs): __new__, then __init__ on the object that
\* __new__ returned.  `fails` says whether the store raises in __init__.
Construct(t, kwargs, fails) ==
    /\ recops < MaxRecOps
    /\ recops' = recops + 1
    /\ IF _instances[t] # 0
       THEN LET obj == _instances[t]
            IN  IF ~heap[obj].initialized /\ Given(kwargs) # {}
                THEN \* setattr on an object that BaseModel.__init__ never set up
                     /\ ~fails
                     /\ recres' = [op |-> "construct", type |-> t, outcome |-> "AttributeError",
                                   obj |-> 0, map |-> kwargs]
                     /\ UNCHANGED <<_instances, heap, recrow, loads, upserts>>
                ELSE LET st0 == IF heap[obj].initialized
                                THEN setattr_each(t, RecState(t), kwargs, 1)
                                ELSE RecState(t)
                     IN  IF ~needs_init(obj)
                         THEN /\ ~fails
                              /\ heap' = [heap EXCEPT ![obj].fields = st0.fields]
                              /\ recrow' = [recrow EXCEPT ![t] = st0.row]
                              /\ upserts' = [upserts EXCEPT ![t] = st0.upserts]
                              /\ recres' = [op |-> "construct", type |-> t,
                                            outcome |-> "returned", obj |-> obj,
                                            map |-> kwargs]
                              /\ UNCHANGED <<_instances, loads>>
                         ELSE IF fails
                         THEN /\ recres' = [op |-> "construct", type |-> t,
                                            outcome |-> "StorageError", obj |-> 0, map |-> kwargs]
                              /\ heap' = [heap EXCEPT ![obj].fields = st0.fields]
                              /\ recrow' = [recrow EXCEPT ![t] = st0.row]
                              /\ upserts' = [upserts EXCEPT ![t] = st0.upserts]
                              /\ UNCHANGED <<_instances, loads>>
                         ELSE LET init_data == Merged(st0.row, kwargs)
                                  loaded == [st0 EXCEPT !.fields =
                                               [f \in RecFieldSet |->
                                                  IF init_data[f] = Missing THEN None
                                                  ELSE init_data[f]]]
                                  st1 == IF auto_save(t) THEN update(loaded) ELSE loaded
                              IN  /\ heap' = [heap EXCEPT ![obj] =
                                                [type |-> t, fields |-> st1.fields,
                                                 initialized |-> TRUE]]
                                  /\ recrow' = [recrow EXCEPT ![t] = st1.row]
                                  /\ upserts' = [upserts EXCEPT ![t] = st1.upserts]
                                  /\ loads' = [loads EXCEPT ![t] = @ + 1]
                                  /\ recres' = [op |-> "construct", type |-> t,
                                                outcome |-> "returned", obj |-> obj,
                                                map |-> kwargs]
                                  /\ UNCHANGED _instances
       ELSE LET obj == Len(heap) + 1
                init_data == Merged(recrow[t], kwargs)
                loaded == [fields |-> [f \in RecFieldSet |->
                                         IF init_data[f] = Missing THEN None ELSE init_data[f]],
                           row |-> recrow[t], upserts |-> upserts[t]]
                st1 == IF auto_save(t) THEN update(loaded) ELSE loaded
            IN  /\ _instances' = [_instances EXCEPT ![t] = obj]
                /\ IF fails
                   THEN /\ heap' = Append(heap, [type |-> t, fields |-> NoRow,
                                                 initialized |-> FALSE])
                        /\ recres' = [op |-> "construct", type |-> t,
                                      outcome |-> "StorageError", obj |-> 0, map |-> kwargs]
                        /\ UNCHANGED <<recrow, loads, upserts>>
                   ELSE /\ heap' = Append(heap, [type |-> t, fields |-> st1.fields,
                                                 initialized |-> TRUE])
                        /\ recrow' = [recrow EXCEPT ![t] = st1.row]
                        /\ upserts' = [upserts EXCEPT ![t] = st1.upserts]
                        /\ loads' = [loads EXCEPT ![t] = @ + 1]
                        /\ recres' = [op |-> "construct", type |-> t,
                                      outcome |-> "returned", obj |-> obj,
                                      map |-> kwargs]
    /\ UNCHANGED nonRecVars

\* instance.patch(model_dict) on the cached, initialized object of t.
Patch(t, model_dict) ==
    /\ recops < MaxRecOps
    /\ recops' = recops + 1
    /\ _instances[t] # 0
    /\ heap[_instances[t]].initialized
    /\ LET st == update(setattr_each(t, RecState(t), model_dict, 1))
       IN  /\ heap' = [heap EXCEPT ![_instances[t]].fields = st.fields]
           /\ recrow' = [recrow EXCEPT ![t] = st.row]
           /\ upserts' = [upserts EXCEPT ![t] = st.upserts]
    /\ recres' = [op |-> "patch", type |-> t, outcome |-> "returned",
                  obj |-> _instances[t], map |-> model_dict]
    /\ UNCHANGED <<_instances, loads, nonRecVars>>

\* RecordModel.clear_instance
ClearInstance(t) ==
    /\ recops < MaxRecOps
    /\ recops' = recops + 1
    /\ _instances[t] # 0
    /\ _instances' = [_instances EXCEPT ![t] = 0]
    /\ recres' = [op |-> "clear", type |-> t, outcome |-> "returned", obj |-> 0,
                  map |-> NoRow]
    /\ UNCHANGED <<heap, recrow, loads, upserts, nonRecVars>>

\* Another process writes the row of the record.
ForeignWrite(t, f, v) ==
    /\ recops < MaxRecOps
    /\ recops' = recops + 1
    /\ recrow[t][f] # v
    /\ recrow' = [recrow EXCEPT ![t][f] = v]
    /\ recres' = [op |-> "foreign", type |-> t, outcome |-> "returned", obj |-> 0,
                  map |-> NoRow]
    /\ UNCHANGED <<_instances, heap, loads, upserts, nonRecVars>>

(***************************************************************************)
(* ObjectModel._convert_surreal_types (domain/base.py).                    *)
(*                                                                         *)
(* A value is a record tagged by its kind k: None, a string (the sequence  *)
(* of its colon-separated parts), a RecordID, a DateTimeCompact, a         *)
(* datetime, a list or a dict.                                             *)
(***************************************************************************)
VNone == [k |-> "none"]
Str(parts) == [k |-> "str", s |-> parts]
RecordID(table, key) == [k |-> "ref", table |-> table, key |-> key]
DateTimeCompact(ns) == [k |-> "ts", ns |-> ns]
DateTime(sec) == [k |-> "dt", sec |-> sec]
ListOf(items) == [k |-> "list", items |-> items]
MapOf(f) == [k |-> "map", m |-> f]
RaisedV == [k |-> "raised"]     \* the evaluation raised
NotRun == [k |-> "notrun"]      \* no call was made

\* hasattr(value, 'table_name') and hasattr(value, 'record_id')
is_record_id(value) == value.k = "ref"
\* hasattr(value, 'timestamp'): a DateTimeCompact has the attribute, and so has
\* a datetime (its timestamp() method).
has_timestamp(value) == value.k \in {"ts", "dt"}

\* f"{value.table_name}:{value.record_id}"
ref_string(value) == Str(<<value.table, value.key>>)

\* datetime.fromtimestamp(int(value.timestamp) // 1_000_000_000): int() of a
\* datetime's bound method raises TypeError.
fromtimestamp(value) ==
    IF value.k = "ts" THEN DateTime(value.ns \div NanosPerSecond) ELSE RaisedV

\* The except branch: the representation a field gets when its conversion raised.
\* (variant: the field is set to None)
fallback_none(value) == VNone
fallback(value) ==
    IF is_record_id(value) THEN ref_string(value)
    ELSE IF has_timestamp(value)
         THEN (IF fromtimestamp(value).k = "raised" THEN value ELSE fromtimestamp(value))
         ELSE value

RECURSIVE _convert_surreal_types(_)

\* One element of the list comprehension.
convert_item(item) ==
    IF item.k = "map" THEN _convert_surreal_types(item)
    ELSE IF is_record_id(item) THEN ref_string(item)
    ELSE IF has_timestamp(item) THEN fromtimestamp(item)
    ELSE item

\* The try block for one field's value.
convert_value(value) ==
    IF value.k = "none" THEN VNone
    ELSE IF is_record_id(value) THEN ref_string(value)
    ELSE IF has_timestamp(value) THEN fromtimestamp(value)
    ELSE IF value.k = "list"
         THEN LET items == [i \in 1..Len(value.items) |-> convert_item(value.items[i])]
              IN  IF \E i \in 1..Len(items) : items[i].k = "raised" THEN RaisedV
                  ELSE ListOf(items)
    ELSE IF value.k = "map" THEN _convert_surreal_types(value)
    ELSE value

_convert_surreal_types(data) ==
    IF DOMAIN data.m = {} THEN MapOf([key \in {} |-> VNone])
    ELSE MapOf([key \in DOMAIN data.m |->
                  IF convert_value(data.m[key]).k = "raised" THEN fallback(data.m[key])
                  ELSE convert_value(data.m[key])])

\* A call of the normalizer on ndata, and a call on what it returned.
Normalize ==
    /\ nout = NotRun
    /\ nout' = _convert_surreal_types(ndata)
    /\ UNCHANGED <<ndata, nagain, nonNormVars>>

NormalizeAgain ==
    /\ nout # NotRun
    /\ nagain = NotRun
    /\ nagain' = _convert_surreal_types(nout)
    /\ UNCHANGED <<ndata, nout, nonNormVars>>

(***************************************************************************)
(* ObjectModel.delete and ObjectModel.relate (domain/base.py).             *)
(***************************************************************************)
\* repo_delete(id), "DELETE $id;": the rows of the store without the record id.
\* (variant: a delete that also removes the rows that refer to the record)
rows_after_delete_cascade(id) == {r \in rows : r.id # id /\ r.source # id}
rows_after_delete(id) == {r \in rows : r.id # id}

\* relate(): not relationship or not target_id or not self.id
\* (variant: the target_id is not examined)
relate_rejects_unchecked_target(e, relationship, target_id) ==
    relationship = "" \/ e.id = NoId
relate_rejects(e, relationship, target_id) ==
    relationship = "" \/ target_id = NoId \/ e.id = NoId

\* repo_relate(source, relationship, target), "RELATE source->relationship->target":
\* the relation rows of the store with the new edge.
\* (variant: an edge that exists already is not created again)
edges_after_relate_unique(source, relationship, target) ==
    IF \E k \in 1..Len(edges) :
          edges[k] = [in |-> source, rel |-> relationship, out |-> target]
    THEN edges
    ELSE Append(edges, [in |-> source, rel |-> relationship, out |-> target])
edges_after_relate(source, relationship, target) ==
    Append(edges, [in |-> source, rel |-> relationship, out |-> target])

\* ObjectModel.delete on object o; `fails` says whether the store raises.
Delete(o, fails) ==
    /\ dops < MaxDelOps
    /\ dops' = dops + 1
    /\ fails => mem[o].id # NoId /\ faults < MaxFaults
    /\ IF mem[o].id = NoId
       THEN /\ delres' = [op |-> "delete", obj |-> o, relationship |-> "",
                          target_id |-> NoId, outcome |-> "InvalidInputError"]
            /\ UNCHANGED <<rows, stmts, faults>>
       ELSE /\ stmts' = Append(stmts, <<"DELETE", mem[o].id>>)
            /\ IF fails
               THEN /\ delres' = [op |-> "delete", obj |-> o, relationship |-> "",
                                  target_id |-> NoId, outcome |-> "DatabaseOperationError"]
                    /\ faults' = faults + 1
                    /\ UNCHANGED rows
               ELSE /\ delres' = [op |-> "delete", obj |-> o, relationship |-> "",
                                  target_id |-> NoId, outcome |-> "returned"]
                    /\ rows' = rows_after_delete(mem[o].id)
                    /\ UNCHANGED faults
    /\ UNCHANGED <<edges, clock, nextKey, mem, sresult, saves, getres, embedding_model,
                   switches, vecVars, insVars, listVars, recVars, normVars>>

\* ObjectModel.relate on object o; `fails` says whether the store raises.
Relate(o, relationship, target_id, fails) ==
    /\ dops < MaxDelOps
    /\ dops' = dops + 1
    /\ fails => ~relate_rejects(mem[o], relationship, target_id) /\ faults < MaxFaults
    /\ IF relate_rejects(mem[o], relationship, target_id)
       THEN /\ delres' = [op |-> "relate", obj |-> o, relationship |-> relationship,
                          target_id |-> target_id, outcome |-> "InvalidInputError"]
            /\ UNCHANGED <<edges, stmts, faults>>
       ELSE /\ stmts' = Append(stmts, <<"RELATE", mem[o].id, relationship, target_id>>)
            /\ IF fails
               THEN /\ delres' = [op |-> "relate", obj |-> o, relationship |-> relationship,
                                  target_id |-> target_id,
                                  outcome |-> "DatabaseOperationError"]
                    /\ faults' = faults + 1
                    /\ UNCHANGED edges
               ELSE /\ delres' = [op |-> "relate", obj |-> o, relationship |-> relationship,
                                  target_id |-> target_id, outcome |-> "returned"]
                    /\ edges' = edges_after_relate(mem[o].id, relationship, target_id)
                    /\ UNCHANGED faults
    /\ UNCHANGED <<rows, clock, nextKey, mem, sresult, saves, getres, embedding_model,
                   switches, vecVars, insVars, listVars, recVars, normVars>>

\* Source.add_to_notebook
add_to_notebook(o, notebook_id, fails) ==
    IF notebook_id = NoId
    THEN /\ dops < MaxDelOps
         /\ dops' = dops + 1
         /\ ~fails
         /\ delres' = [op |-> "relate", obj |-> o, relationship |-> "reference",
                       target_id |-> notebook_id, outcome |-> "InvalidInputError"]
         /\ UNCHANGED <<edges, stmts, faults, rows, clock, nextKey, mem, sresult, saves,
                        getres, embedding_model, switches, vecVars, insVars, listVars,
                        recVars, normVars>>
    ELSE Relate(o, "reference", notebook_id, fails)

(***************************************************************************)
(* Initial states and specifications.                                      *)
(***************************************************************************)
InitEnv ==
    /\ switches = 0
    /\ faults = 0

InitInsIdle ==
    /\ source_insight = <<>>
    /\ ipc = [p \in Callers |-> "idle"]
    /\ iargs = [p \in Callers |-> NoArgs]
    /\ imodel = [p \in Callers |-> None]
    /\ ifound = [p \in Callers |-> 0]
    /\ iresult = [p \in Callers |-> "none"]
    /\ calls = 0
    /\ lastWritten = [pair \in Sources \X InsightTypes |-> NoText]

InitObjIdle ==
    /\ clock = 0
    /\ nextKey = 1
    /\ sresult = [o \in Objs |-> "none"]
    /\ saves = [o \in Objs |-> 0]
    /\ getres = [cls |-> "", id |-> NoId, fails |-> FALSE, outcome |-> "none", type |-> ""]

InitObjNew ==
    /\ rows = {}
    /\ mem = [o \in Objs |-> [id |-> NoId, created |-> NoTime, updated |-> NoTime,
                                text |-> "x"]]

InitListIdle ==
    listres = [cls |-> "", order_by |-> None, fails |-> FALSE, outcome |-> "none",
               result |-> <<>>, objects |-> <<>>]

InitRecIdle ==
    /\ _instances = [t \in RecordTypes |-> 0]
    /\ heap = <<>>
    /\ recres = [op |-> "none", type |-> "", outcome |-> "none", obj |-> 0, map |-> NoRow]
    /\ loads = [t \in RecordTypes |-> 0]
    /\ upserts = [t \in RecordTypes |-> 0]
    /\ recops = 0

InitNormIdle ==
    /\ nout = NotRun
    /\ nagain = NotRun

InitDelIdle ==
    /\ delres = [op |-> "none", obj |-> "", relationship |-> "", target_id |-> NoId,
                 outcome |-> "none"]
    /\ stmts = <<>>
    /\ dops = 0

InitExtIdle ==
    /\ InitListIdle
    /\ InitRecIdle
    /\ recrow = [t \in RecordTypes |-> NoRow]
    /\ InitNormIdle
    /\ ndata = MapOf([key \in {} |-> VNone])
    /\ InitDelIdle
    /\ edges = <<>>

InitVecIdle ==
    /\ source_embedding = <<>>
    /\ vpc = "idle"
    /\ vmodel = None
    /\ chunks = <<>>
    /\ fut = <<>>
    /\ futres = <<>>
    /\ collected = 0
    /\ vbase = 0
    /\ vresult = "none"
    /\ runs = 0
    /\ embedCalls = <<>>
    /\ completion = <<>>
    /\ embedRaised = {}
    /\ peak = 0

\* The vectorize specification: texts of up to MaxChunks chunks, repeated
\* calls, registry switches and collaborator failures.
InitVec ==
    /\ embedding_model \in {None} \cup Providers
    /\ full_text \in FullTexts(MaxChunks)
    /\ history = TRUE
    /\ InitEnv
    /\ InitVecIdle
    /\ InitInsIdle
    /\ InitObjIdle
    /\ InitObjNew
    /\ InitExtIdle

NextVec ==
    \/ VectorizeBegin
    \/ WorkerTake
    \/ \E i \in 1..Len(fut), fails \in BOOLEAN : WorkerFinish(i, fails)
    \/ Collect
    \/ VectorizeFail
    \/ \E fails \in BOOLEAN : InsertChunk(fails)
    \/ \E m \in {None} \cup Providers : set_embedding_model(m)

SpecVec == InitVec /\ [][NextVec]_vars

\* The worker-pool specification: one call on a text of more chunks than workers.
InitPool ==
    /\ embedding_model = "p1"
    /\ full_text = Doc(PoolChunks)
    /\ history = FALSE
    /\ InitEnv
    /\ InitVecIdle
    /\ InitInsIdle
    /\ InitObjIdle
    /\ InitObjNew
    /\ InitExtIdle

NextPool ==
    \/ (runs = 0 /\ VectorizeBegin)
    \/ WorkerTake
    \/ \E i \in 1..Len(fut), fails \in BOOLEAN : WorkerFinish(i, fails)
    \/ Collect
    \/ VectorizeFail
    \/ InsertChunk(FALSE)

SpecPool == InitPool /\ [][NextPool]_vars

\* The add_insight specification: two callers whose calls may interleave.
InitInsight ==
    /\ embedding_model \in {None, "p1"}
    /\ full_text = NoText
    /\ history = TRUE
    /\ InitEnv
    /\ InitVecIdle
    /\ InitInsIdle
    /\ InitObjIdle
    /\ InitObjNew
    /\ InitExtIdle

NextInsight ==
    \/ \E p \in Callers, src \in Sources, t \in InsightTypes \cup {""},
          c \in Contents \cup {<<>>}, fails \in BOOLEAN :
            AddInsightLookup(p, src, t, c, fails)
    \/ \E p \in Callers, fails \in {"no", "embed", "store"} : AddInsightWrite(p, fails)

SpecInsight == InitInsight /\ [][NextInsight]_vars

\* The add_insight race specification: two callers' valid calls on one source
\* interleave; the store may fail on a write.
NextInsightRace ==
    \/ \E p \in Callers, t \in InsightTypes, c \in Contents :
            AddInsightLookup(p, SourceId, t, c, FALSE)
    \/ \E p \in Callers, fails \in {"no", "store"} : AddInsightWrite(p, fails)

SpecInsightRace == InitInsight /\ [][NextInsightRace]_vars

\* The sequential add_insight specification: one caller, so no two calls overlap.
NextInsightSeq ==
    \/ \E src \in Sources, t \in InsightTypes \cup {""}, c \in Contents \cup {<<>>},
          fails \in BOOLEAN :
            AddInsightLookup("c1", src, t, c, fails)
    \/ \E fails \in {"no", "embed", "store"} : AddInsightWrite("c1", fails)

SpecInsightSeq == InitInsight /\ [][NextInsightSeq]_vars

\* The save specification: a Note and a Notebook are created in memory, saved
\* and saved again while the clock runs.
InitSave ==
    /\ embedding_model \in {None, "p1"}
    /\ full_text = NoText
    /\ history = TRUE
    /\ InitEnv
    /\ InitVecIdle
    /\ InitInsIdle
    /\ InitObjIdle
    /\ InitObjNew
    /\ InitExtIdle

NextSave ==
    \/ Tick
    \/ \E o \in Objs, text \in {"x", " "} : SetText(o, text)
    \/ \E o \in Objs, fails \in {"no", "embed", "store"}, now2 \in 0..MaxClock :
          Save(o, fails, now2)

SpecSave == InitSave /\ [][NextSave]_vars

\* The validation specification: a Notebook and a Note are assigned valid,
\* missing, empty and whitespace-only texts and saved, at one clock reading.
NextValidate ==
    \/ \E o \in Objs, text \in {"x", " ", "", None} : SetText(o, text)
    \/ \E o \in Objs, fails \in {"no", "store"} : Save(o, fails, clock)

SpecValidate == InitSave /\ [][NextValidate]_vars

\* The registry-switch specification: one vectorize() call and add_insight()
\* calls on one source while the registry is switched to another provider or
\* to none.
InitSwitch ==
    /\ embedding_model \in {None} \cup Providers
    /\ full_text = Doc(MaxChunks)
    /\ history = FALSE
    /\ InitEnv
    /\ InitVecIdle
    /\ InitInsIdle
    /\ InitObjIdle
    /\ InitObjNew
    /\ InitExtIdle

NextSwitch ==
    \/ runs = 0 /\ VectorizeBegin
    \/ WorkerTake
    \/ \E i \in 1..Len(fut) : WorkerFinish(i, FALSE)
    \/ Collect
    \/ VectorizeFail
    \/ InsertChunk(FALSE)
    \/ \E m \in {None} \cup Providers : set_embedding_model(m)
    \/ \E c \in Contents : AddInsightLookup("c1", SourceId, "summary", c, FALSE)
    \/ AddInsightWrite("c1", "no")

SpecSwitch == InitSwitch /\ [][NextSwitch]_vars

\* The update specification: a SourceInsight, a SourceEmbedding and a Note that
\* were loaded from stored rows are changed and saved once.  The rows were written
\* by add_insight, vectorize and an earlier save: they hold an embedding, and
\* the first two the back-reference `source` (and `order`), which are no
\* declared fields of the types.
UpdObjs == {"an_insight", "an_embedding", "a_note"}
UpdId(o) == <<table_name[ClassOf(o)], 1>>
UpdRow(o) ==
    LET base == [id |-> UpdId(o), text |-> "x", created |-> 0, updated |-> 0,
                 embedding |-> embed("p1", "x")]
    IN  CASE o = "an_insight" ->
               [f \in DOMAIN base \cup {"source"} |->
                  IF f = "source" THEN <<"source", 1>> ELSE base[f]]
          [] o = "an_embedding" ->
               [f \in DOMAIN base \cup {"source", "order"} |->
                  IF f = "source" THEN <<"source", 1>>
                  ELSE IF f = "order" THEN <<0>> ELSE base[f]]
          [] OTHER -> base

InitUpdate ==
    /\ embedding_model \in {None, "p1"}
    /\ full_text = NoText
    /\ history = TRUE
    /\ InitEnv
    /\ InitVecIdle
    /\ InitInsIdle
    /\ InitExtIdle
    /\ clock = 0
    /\ nextKey = 2
    /\ sresult = [o \in UpdObjs |-> "none"]
    /\ saves = [o \in UpdObjs |-> 0]
    /\ getres = [cls |-> "", id |-> NoId, fails |-> FALSE, outcome |-> "none", type |-> ""]
    /\ rows = {UpdRow(o) : o \in UpdObjs}
    /\ mem = [o \in UpdObjs |-> [id |-> UpdId(o), created |-> 0, updated |-> 0,
                                   text |-> "x"]]

NextUpdate ==
    \/ Tick
    \/ \E o \in UpdObjs, text \in {"x", "y", None} : SetText(o, text)
    \/ \E o \in UpdObjs, fails \in {"no", "store"} : saves[o] = 0 /\ Save(o, fails, clock)

SpecUpdate == InitUpdate /\ [][NextUpdate]_vars

\* The get specification: get() is called on every type, for ids of every
\* table, on a store that holds no row, valid rows or malformed rows.
ProbeIds ==
    {<<table_name[c], "abc123">> : c \in Classes \ {"ObjectModel"}}
        \cup {<<"unknown_table", "abc123">>, <<"note">>, <<"note", "abc", "123">>, NoId}
StoredRows(text) ==
    {[id |-> <<table_name[c], "abc123">>, text |-> text, created |-> 0, updated |-> 0,
      embedding |-> NoVector] : c \in Classes \ {"ObjectModel"}}

InitGet ==
    /\ embedding_model = None
    /\ full_text = NoText
    /\ history = TRUE
    /\ InitEnv
    /\ InitVecIdle
    /\ InitInsIdle
    /\ InitObjIdle
    /\ InitExtIdle
    /\ rows \in {{}, StoredRows("x"), StoredRows(" "), StoredRows(Missing)}
    /\ mem = [o \in Objs |-> [id |-> NoId, created |-> NoTime, updated |-> NoTime,
                               text |-> "x"]]

NextGet == \E cls \in Classes, id \in ProbeIds, fails \in BOOLEAN : Get(cls, id, fails)

SpecGet == InitGet /\ [][NextGet]_vars

\* The listing specification: get_all() is called on every type, with and
\* without an order, on tables that hold valid and malformed rows.
ListTables == {"notebook", "note"}
ListTexts == {"x", " ", Missing}
ListRow(table, k, text) ==
    [id |-> <<table, k>>, text |-> text, created |-> 0, updated |-> k,
     embedding |-> NoVector]

InitGetAll ==
    /\ embedding_model = None
    /\ full_text = NoText
    /\ history = TRUE
    /\ InitEnv
    /\ InitVecIdle
    /\ InitInsIdle
    /\ InitObjIdle
    /\ InitExtIdle
    /\ \E table \in ListTables, present \in SUBSET (1..MaxRows),
          text \in [1..MaxRows -> ListTexts] :
            rows = {ListRow(table, k, text[k]) : k \in present}
                      \cup {ListRow("source", 1, "x")}
    /\ mem = [o \in Objs |-> [id |-> NoId, created |-> NoTime, updated |-> NoTime,
                               text |-> "x"]]

NextGetAll ==
    \E cls \in Classes, order_by \in {None, "updated desc"}, fails \in BOOLEAN :
        GetAll(cls, order_by, fails)

SpecGetAll == InitGetAll /\ [][NextGetAll]_vars

\* The RecordModel specification: constructions with and without overrides,
\* patches, clear_instance and writes of the row by another process.
InitRecord ==
    /\ embedding_model = None
    /\ full_text = NoText
    /\ history = TRUE
    /\ InitEnv
    /\ InitVecIdle
    /\ InitInsIdle
    /\ InitObjIdle
    /\ InitObjNew
    /\ InitListIdle
    /\ InitRecIdle
    /\ recrow \in [RecordTypes -> {NoRow, [x |-> "1", y |-> Missing]}]
    /\ InitNormIdle
    /\ ndata = MapOf([key \in {} |-> VNone])
    /\ InitDelIdle
    /\ edges = <<>>

NextRecord ==
    \/ \E t \in RecordTypes, kwargs \in FieldMaps, fails \in BOOLEAN :
          Construct(t, kwargs, fails)
    \/ \E t \in RecordTypes, model_dict \in FieldMaps : Patch(t, model_dict)
    \/ \E t \in RecordTypes : ClearInstance(t)
    \/ \E t \in RecordTypes, f \in RecFieldSet, v \in RecVals : ForeignWrite(t, f, v)

SpecRecord == InitRecord /\ [][NextRecord]_vars

\* The missing-provider specification: a Note is saved and one caller adds
\* insights to one source, with and without a provider.
NextNoProvider ==
    \/ \E text \in {"x", None} : SetText("a_note", text)
    \/ \E fails \in {"no", "embed", "store"} : Save("a_note", fails, clock)
    \/ \E t \in InsightTypes, fails \in BOOLEAN :
          AddInsightLookup("c1", SourceId, t, <<"k:v", "B">>, fails)
    \/ \E fails \in {"no", "embed", "store"} : AddInsightWrite("c1", fails)

SpecNoProvider == InitSave /\ [][NextNoProvider]_vars

\* The normalizer specification: mappings whose values are scalars, native
\* values, lists and mappings, nested two deep.
Atoms ==
    {VNone, Str(<<"a">>), RecordID("note", "1"), DateTimeCompact(1500000000), DateTime(1)}
SeqsUpTo(S, n) == UNION {[1..len -> S] : len \in 0..n}
Items ==
    Atoms \cup {ListOf(q) : q \in SeqsUpTo(Atoms, 1)}
          \cup {MapOf([key \in K |-> v]) : K \in {{}, {"a"}}, v \in Atoms}
Values ==
    Items \cup {ListOf(q) : q \in SeqsUpTo(Items, MaxItems)}
          \cup {MapOf([key \in {"a"} |-> v]) : v \in Items}
Inputs ==
    {MapOf([key \in {} |-> VNone])}
        \cup {MapOf([key \in {"a"} |-> v]) : v \in Values}
        \cup {MapOf([key \in {"a", "b"} |->
                       IF key = "a" THEN v ELSE RecordID("source", "2")]) : v \in Values}

InitNorm ==
    /\ embedding_model = None
    /\ full_text = NoText
    /\ history = TRUE
    /\ InitEnv
    /\ InitVecIdle
    /\ InitInsIdle
    /\ InitObjIdle
    /\ InitObjNew
    /\ InitListIdle
    /\ InitRecIdle
    /\ recrow = [t \in RecordTypes |-> NoRow]
    /\ InitNormIdle
    /\ ndata \in Inputs
    /\ InitDelIdle
    /\ edges = <<>>

NextNorm == Normalize \/ NormalizeAgain

SpecNorm == InitNorm /\ [][NextNorm]_vars

\* The delete / relate specification: a stored Source with an insight, an
\* embedding and a reference edge to a stored Notebook, and a Source that was
\* never saved.
DelObjs == {"a_source", "new_source", "a_notebook"}
DelId(o) ==
    CASE o = "a_source" -> <<"source", 1>>
      [] o = "new_source" -> NoId
      [] o = "a_notebook" -> <<"notebook", 1>>
DelRow(id, source) ==
    [id |-> id, source |-> source, text |-> "x", created |-> 0, updated |-> 0,
     embedding |-> NoVector]

InitDelete ==
    /\ embedding_model = None
    /\ full_text = NoText
    /\ history = TRUE
    /\ InitEnv
    /\ InitVecIdle
    /\ InitInsIdle
    /\ InitObjIdle
    /\ InitListIdle
    /\ InitRecIdle
    /\ recrow = [t \in RecordTypes |-> NoRow]
    /\ InitNormIdle
    /\ ndata = MapOf([key \in {} |-> VNone])
    /\ InitDelIdle
    /\ mem = [o \in DelObjs |-> [id |-> DelId(o), created |-> 0, updated |-> 0,
                                  text |-> "x"]]
    /\ rows = {DelRow(<<"source", 1>>, NoId), DelRow(<<"notebook", 1>>, NoId),
               DelRow(<<"source_insight", 1>>, <<"source", 1>>),
               DelRow(<<"source_embedding", 1>>, <<"source", 1>>)}
    /\ edges \in {<<>>, <<[in |-> <<"source", 1>>, rel |-> "reference",
                          out |-> <<"notebook", 1>>]>>}

NextDelete ==
    \/ \E o \in DelObjs, fails \in BOOLEAN : Delete(o, fails)
    \/ \E o \in DelObjs, relationship \in {"reference", ""},
          target_id \in {<<"notebook", 1>>, NoId}, fails \in BOOLEAN :
            Relate(o, relationship, target_id, fails)
    \/ \E notebook_id \in {<<"notebook", 1>>, NoId}, fails \in BOOLEAN :
          add_to_notebook("a_source", notebook_id, fails)

SpecDelete == InitDelete /\ [][NextDelete]_vars

(***************************************************************************)
(* Claims about vectorize.                                                 *)
(***************************************************************************)
Succeeded == vpc = "idle" /\ runs > 0 /\ vresult = "returned" /\ Len(chunks) >= 1
Ended == vpc = "idle" /\ runs > 0 /\ Len(chunks) >= 1

RowsOfOrder(i) == {k \in 1..Len(RunRows) : RunRows[k].order = i}

\* C1: a successful vectorize() of a text of N >= 1 chunks has created exactly N
\* rows, one for each order 0..N-1, and the row of order i holds the cleaned
\* text of chunk i, whatever the order in which the workers finished.
C1_OrderPreserved ==
    Succeeded =>
        /\ Len(RunRows) = Len(chunks)
        /\ \A i \in 0..(Len(chunks) - 1) :
             /\ Cardinality(RowsOfOrder(i)) = 1
             /\ \A k \in RowsOfOrder(i) :
                  /\ RunRows[k].content = surreal_clean(chunks[i + 1])
                  /\ RunRows[k].source = SourceId
        /\ \A k \in 1..Len(RunRows) : RunRows[k].order \in 0..(Len(chunks) - 1)

\* C1 witness: a successful run of 3 chunks whose workers finished last-first.
C1_Witness ==
    /\ Succeeded
    /\ Len(chunks) = 3
    /\ completion = <<3, 2, 1>>
    /\ Len(RunRows) = 3

\* C4 (as claimed): with no provider in the registry, a vectorize() of N >= 1
\* chunks returns normally and has inserted N rows with empty embeddings.
C4_NoProviderVectorizeSucceeds ==
    (Ended /\ embedding_model = None /\ switches = 0) =>
        /\ vresult = "returned"
        /\ Len(RunRows) = Len(chunks)
        /\ \A k \in 1..Len(RunRows) :
             RunRows[k].embedding = <<>> /\ RunRows[k].order = k - 1

\* C7: once the embedding call of a chunk has failed, the call inserts no row
\* and ends with DatabaseOperationError.
C7_ChunkFailureIsFatal ==
    embedRaised # {} =>
        /\ Len(RunRows) = 0
        /\ vpc # "inserting"
        /\ vpc = "idle" => vresult = "DatabaseOperationError"

\* C7 witness: a call with a provider ended after one chunk failed and another
\* had been embedded.
C7_Witness ==
    /\ Ended
    /\ vmodel # None
    /\ embedRaised # {}
    /\ \E i \in 1..Len(fut) : fut[i] = "ok"
    /\ vresult = "DatabaseOperationError"

BothCreated(pair) ==
    \A p \in Callers :
        /\ iresult[p] = "returned"
        /\ ifound[p] = 0
        /\ <<iargs[p][1], iargs[p][2]>> = pair

\* C3: when the two callers' calls for one pair both read 'not found' and both
\* returned, each has created a row: the pair has two rows.
C3_RaceCreatesTwoRows ==
    \A pair \in Sources \X InsightTypes :
        BothCreated(pair) => Cardinality(PairRows(pair[1], pair[2])) = 2

\* C3 witness: the state in which both interleaved calls have created a row.
C3_Witness ==
    \E pair \in Sources \X InsightTypes :
        BothCreated(pair) /\ Cardinality(PairRows(pair[1], pair[2])) = 2

(***************************************************************************)
(* Claims about ObjectModel.save and ObjectModel.get.                      *)
(***************************************************************************)
SavedNow(o) == saves'[o] = saves[o] + 1

\* C5 (as claimed): a save of an object without id leaves a non-empty id and
\* created = updated; a save of an object with an id leaves created unchanged
\* and updated advanced.
C5_CreatedEqualsUpdated ==
    [][\A o \in Objs :
          SavedNow(o) =>
              IF mem[o].id = NoId
              THEN mem'[o].id # NoId /\ mem'[o].created = mem'[o].updated
              ELSE /\ mem'[o].created = mem[o].created
                   /\ mem'[o].updated > mem[o].updated]_vars

\* C5 (amended): a save of an object without id leaves a non-empty id and
\* updated <= created, equal when the second of the clock did not change during
\* the save; a save of an object with an id leaves created unchanged and updated
\* not decreased, advanced when the second of the clock is past the old updated;
\* and no step changes the id or created, or decreases updated, of a saved object.
C5_SaveTimestamps ==
    [][\A o \in Objs :
          /\ (SavedNow(o) /\ mem[o].id = NoId) =>
                 /\ mem'[o].id # NoId
                 /\ mem'[o].updated <= mem'[o].created
                 /\ strftime(clock') = strftime(clock) => mem'[o].created = mem'[o].updated
          /\ (SavedNow(o) /\ mem[o].id # NoId) =>
                 /\ mem'[o].created = mem[o].created
                 /\ mem'[o].updated >= mem[o].updated
                 /\ strftime(clock) > mem[o].updated => mem'[o].updated > mem[o].updated
          /\ mem[o].id # NoId =>
                 /\ mem'[o].id = mem[o].id
                 /\ mem'[o].created = mem[o].created
                 /\ mem'[o].updated >= mem[o].updated]_vars

\* C5 witness: an object saved twice, the second time in a later second.
C5_Witness ==
    \E o \in Objs :
        /\ saves[o] = 2
        /\ mem[o].id # NoId
        /\ mem[o].updated > mem[o].created
        /\ \E r \in rows : r.id = mem[o].id /\ r.created = mem[o].created
                                           /\ r.updated = mem[o].updated

\* C6 (as claimed): no operation ends with the storage collaborator's own
\* exception; a storage failure reaches the caller as DatabaseOperationError,
\* NotFoundError or InvalidInputError.
C6_StorageFailureIsWrapped ==
    /\ \A o \in Objs : sresult[o] # "StorageError"
    /\ \A p \in Callers : iresult[p] # "StorageError"
    /\ vresult # "StorageError"

\* The type that declares the table of the id of the last get() call.
KnownTable(t) == \E c \in Classes : c # "ObjectModel" /\ table_name[c] = t
Declaring(t) == CHOOSE c \in Classes : c # "ObjectModel" /\ table_name[c] = t
GetCalled == getres.outcome # "none" /\ getres.id # NoId

C10_GetRaisesOnlyNotFound ==
    GetCalled =>
        /\ getres.outcome \in {"returned", "NotFoundError"}
        /\ ( \/ getres.fails
             \/ ~KnownTable(getres.id[1])
             \/ SelectById(getres.id) = {}
             \/ \E r \in SelectById(getres.id) :
                  Validate(Declaring(getres.id[1]), r.text) # "ok" )
           => getres.outcome = "NotFoundError"

\* C10 witness: a get() of a stored row that cannot be constructed has raised
\* NotFoundError.
C10_Witness ==
    /\ GetCalled
    /\ ~getres.fails
    /\ KnownTable(getres.id[1])
    /\ \E r \in SelectById(getres.id) : Validate(Declaring(getres.id[1]), r.text) # "ok"
    /\ getres.outcome = "NotFoundError"

(***************************************************************************)
(* Claims about ObjectModel.get_all.                                       *)
(***************************************************************************)
Listed == listres.outcome # "none" /\ listres.cls # "ObjectModel" /\ ~listres.fails

\* The positions of the store's result whose row can be constructed as cls.
Constructible(cls, result) ==
    {i \in 1..Len(result) : Validate(cls, result[i].text) = "ok"}

\* C11: a get_all() on a concrete type returns; the objects are exactly the
\* rows of its table that can be constructed, each once, in the order of the
\* store's result (all of the table's rows); a row that cannot be constructed
\* is left out and the others are kept; without a constructible row the list is
\* empty.
C11_ListingSkipsMalformedRows ==
    Listed =>
        LET result == listres.result
            objects == listres.objects
            good == Constructible(listres.cls, result)
        IN  /\ listres.outcome = "returned"
            /\ {result[i] : i \in 1..Len(result)} = TableRows(table_name[listres.cls])
            /\ Len(result) = Cardinality(TableRows(table_name[listres.cls]))
            /\ Len(objects) = Cardinality(good)
            /\ \A i \in good : \E k \in 1..Len(objects) : objects[k] = result[i]
            /\ \A k \in 1..Len(objects) : \E i \in good : objects[k] = result[i]
            /\ \A i, j \in good :
                 i < j => \E k, l \in 1..Len(objects) :
                              k < l /\ objects[k] = result[i] /\ objects[l] = result[j]
            /\ good = {} => objects = <<>>

\* C11 witness: a listing, ordered by `updated`, of a table of two valid rows
\* and one malformed row between them has returned the two valid rows.
C11_Witness ==
    /\ Listed
    /\ listres.order_by # None
    /\ Len(listres.result) = 3
    /\ Validate(listres.cls, listres.result[2].text) # "ok"
    /\ listres.objects = <<listres.result[1], listres.result[3]>>
    /\ listres.result[1].id[2] > listres.result[3].id[2]

(***************************************************************************)
(* Claims about RecordModel.                                               *)
(***************************************************************************)
\* The step is the operation op on type t.
RecStep(op, t) == recops' = recops + 1 /\ recres'.op = op /\ recres'.type = t

\* C12: a construction of a type whose cached object has been initialized
\* returns that object, does not load the row from the store, and leaves every
\* field of the object as it was except the overrides, which it assigns; and
\* only clear_instance changes the object a type has cached.
C12_SingletonIdentity ==
    [][\A t \in RecordTypes :
          /\ (RecStep("construct", t) /\ _instances[t] # 0
                  /\ heap[_instances[t]].initialized) =>
                 /\ recres'.outcome = "returned"
                 /\ recres'.obj = _instances[t]
                 /\ loads'[t] = loads[t]
                 /\ heap'[_instances[t]].fields =
                        Merged(heap[_instances[t]].fields, recres'.map)
          /\ (_instances[t] # 0 /\ ~RecStep("clear", t)) => _instances'[t] = _instances[t]]_vars

\* C12 witness: a second construction, with one override, has returned the
\* object of the first although another process had changed the row in between:
\* the object has the override and still differs from the row.
C12_Witness ==
    \E t \in RecordTypes :
        /\ recres.op = "construct" /\ recres.type = t /\ recres.outcome = "returned"
        /\ Given(recres.map) = {"y"}
        /\ Len(heap) = 1 /\ recres.obj = 1 /\ _instances[t] = 1
        /\ loads[t] = 1
        /\ heap[1].fields.y = recres.map.y
        /\ heap[1].fields.x = "1" /\ recrow[t].x = "2"

\* C13 (as claimed): a patch of k >= 1 entries, on a type with or without
\* auto_save, assigns the k fields and makes exactly one upsert.
C13_PatchPersistsOnce ==
    [][\A t \in RecordTypes :
          (RecStep("patch", t) /\ Given(recres'.map) # {}) =>
              /\ heap'[_instances[t]].fields =
                     Merged(heap[_instances[t]].fields, recres'.map)
              /\ upserts'[t] = upserts[t] + 1]_vars

(***************************************************************************)
(* Claims about a missing embedding provider.                              *)
(***************************************************************************)
\* The object has content that save() embeds.
Embeddable(o) ==
    /\ needs_embedding(ClassOf(o))
    /\ get_embedding_content(ClassOf(o), mem[o]) \notin {None, ""}
    /\ Validate(ClassOf(o), mem[o].text) = "ok"

\* C14: with no provider in the registry and no failure of a collaborator, a
\* save() of an object with embeddable content returns and the row it wrote has
\* the empty vector; an add_insight() write returns, and the row it updated
\* (when the lookup found one) or created (when it found none) has the empty
\* vector.
C14_MissingProviderIsNotFatal ==
    [][/\ \A o \in Objs :
            (embedding_model = None /\ Embeddable(o) /\ faults' = faults
                /\ (sresult'[o] # sresult[o] \/ SavedNow(o))) =>
                 /\ sresult'[o] = "returned"
                 /\ \E r \in rows' : r.id = mem'[o].id /\ r.embedding = <<>>
       /\ \A p \in Callers :
            (ipc[p] = "looked" /\ ipc'[p] = "idle" /\ imodel[p] = None
                /\ faults' = faults) =>
                 /\ iresult'[p] = "returned"
                 /\ IF ifound[p] # 0
                    THEN /\ Len(source_insight') = Len(source_insight)
                         /\ source_insight'[ifound[p]].embedding = <<>>
                    ELSE /\ Len(source_insight') = Len(source_insight) + 1
                         /\ source_insight'[Len(source_insight')].embedding = <<>>]_vars

\* C14 witness: without a provider, a Note has been saved with the empty
\* vector, one insight has been created and updated and another created, all
\* with the empty vector.
C14_Witness ==
    /\ embedding_model = None
    /\ sresult["a_note"] = "returned"
    /\ \E r \in rows : r.id = mem["a_note"].id /\ r.embedding = <<>> /\ r.text = "x"
    /\ iresult["c1"] = "returned"
    /\ Len(source_insight) = 2
    /\ \E k \in 1..2 : source_insight[k].updated > source_insight[k].created
    /\ \E k \in 1..2 : source_insight[k].updated = source_insight[k].created
    /\ \A k \in 1..2 : source_insight[k].embedding = <<>>

(***************************************************************************)
(* Claims about the type normalizer.                                       *)
(***************************************************************************)
\* Whether value v holds a value of one of the kinds, at any depth.
RECURSIVE Holds(_, _)
Holds(v, kinds) ==
    \/ v.k \in kinds
    \/ v.k = "list" /\ \E i \in 1..Len(v.items) : Holds(v.items[i], kinds)
    \/ v.k = "map" /\ \E key \in DOMAIN v.m : Holds(v.m[key], kinds)

Native == {"ref", "ts"}

\* The value with every RecordID and every DateTimeCompact converted, at every depth.
RECURSIVE DeepConverted(_)
DeepConverted(v) ==
    IF v.k = "ref" THEN ref_string(v)
    ELSE IF v.k = "ts" THEN DateTime(v.ns \div NanosPerSecond)
    ELSE IF v.k = "list"
         THEN ListOf([i \in 1..Len(v.items) |-> DeepConverted(v.items[i])])
    ELSE IF v.k = "map" THEN MapOf([key \in DOMAIN v.m |-> DeepConverted(v.m[key])])
    ELSE v

C16_ConvertsAtEveryDepth ==
    (nout # NotRun /\ ~Holds(ndata, {"dt"})) =>
        /\ nout = DeepConverted(ndata)
        /\ ~Holds(nout, Native)

\* C17 (as claimed): the normalizer returns a mapping with the keys of its
\* input; a field whose conversion does not fail is converted; and a field
\* whose conversion fails is not left a RecordID nor a list with a RecordID
\* among its elements.
C17_FailureConfinedToField ==
    nout # NotRun =>
        /\ nout.k = "map"
        /\ DOMAIN nout.m = DOMAIN ndata.m
        /\ \A key \in DOMAIN ndata.m :
             IF convert_value(ndata.m[key]).k # "raised"
             THEN nout.m[key] = convert_value(ndata.m[key])
             ELSE /\ ~is_record_id(nout.m[key])
                  /\ nout.m[key].k = "list" =>
                         \A i \in 1..Len(nout.m[key].items) :
                             ~is_record_id(nout.m[key].items[i])

(***************************************************************************)
(* Claims about delete and relate.                                         *)
(***************************************************************************)
\* The step is a call of delete() or relate().
DelStep(op) == dops' = dops + 1 /\ delres'.op = op

\* C18: a delete() of an object without id, and a relate() of an object without
\* id, without relationship or without target_id, raise InvalidInputError, give
\* the store no statement and leave the rows and the edges as they were.
C18_MissingIdentifiersRejected ==
    [][( \/ DelStep("delete") /\ mem[delres'.obj].id = NoId
         \/ DelStep("relate") /\ ( \/ mem[delres'.obj].id = NoId
                                   \/ delres'.relationship = ""
                                   \/ delres'.target_id = NoId ) ) =>
          /\ delres'.outcome = "InvalidInputError"
          /\ stmts' = stmts
          /\ rows' = rows
          /\ edges' = edges]_vars

\* C18 witness: after calls that reached the store, a relate() of a stored
\* object with a relationship and no target_id has raised InvalidInputError.
C18_Witness ==
    /\ delres.op = "relate"
    /\ mem[delres.obj].id # NoId
    /\ delres.relationship # ""
    /\ delres.target_id = NoId
    /\ delres.outcome = "InvalidInputError"
    /\ Len(stmts) = 2

\* C19: a delete() that returns has given the store the single statement
\* DELETE <id>, has removed the row of that id and no other row, and has left
\* the edges as they were.
C19_DeleteRemovesOnlyTheRow ==
    [][(DelStep("delete") /\ delres'.outcome = "returned") =>
          /\ stmts' = Append(stmts, <<"DELETE", mem[delres'.obj].id>>)
          /\ \A r \in rows : r.id # mem[delres'.obj].id => r \in rows'
          /\ \A r \in rows' : r \in rows /\ r.id # mem[delres'.obj].id
          /\ edges' = edges]_vars

\* C19 witness: the Source has been deleted; its insight, its embedding and its
\* reference edge are still there.
C19_Witness ==
    /\ delres.op = "delete" /\ delres.obj = "a_source" /\ delres.outcome = "returned"
    /\ ~\E r \in rows : r.id = <<"source", 1>>
    /\ \E r \in rows : r.id[1] = "source_insight" /\ r.source = <<"source", 1>>
    /\ \E r \in rows : r.id[1] = "source_embedding" /\ r.source = <<"source", 1>>
    /\ \E k \in 1..Len(edges) : edges[k].in = <<"source", 1>>

(***************************************************************************)
(* Claims about vectorize on a text without chunks.                        *)
(***************************************************************************)
\* full_text is unset, empty, or made of blank segments only.
ZeroChunkText ==
    \/ full_text \in {NoText, <<>>}
    \/ \A i \in 1..Len(full_text) : full_text[i] = " "

\* C20: every vectorize() of a Source whose full_text is unset, empty or splits
\* into zero chunks has returned, with or without a provider; no chunk task was
\* made, no embedding call was made or failed, and no row was created.
C20_EmptyTextIsNoOp ==
    (ZeroChunkText /\ runs > 0) =>
        /\ vpc = "idle"
        /\ vresult = "returned"
        /\ chunks = <<>>
        /\ fut = <<>>
        /\ embedCalls = <<>>
        /\ embedRaised = {}
        /\ peak = 0
        /\ faults = 0
        /\ source_embedding = <<>>

\* C20 witness: two calls on an unset full_text, the second after the registry
\* was given a provider, have returned.
C20_Witness ==
    /\ full_text = NoText
    /\ runs = 2
    /\ switches = 1
    /\ embedding_model # None
    /\ vresult = "returned"
    /\ source_embedding = <<>>

(***************************************************************************)
(* Claims about the edges relate() creates.                                *)
(***************************************************************************)
\* The edges from source to target named relationship.
EdgesIn(es, source, relationship, target) ==
    {k \in 1..Len(es) :
        es[k] = [in |-> source, rel |-> relationship, out |-> target]}
EdgesOf(source, relationship, target) == EdgesIn(edges, source, relationship, target)

\* C21: a relate() that returns has given the store one RELATE statement and
\* has added one edge from the entity to target_id, also when such an edge was
\* there already; it changes no other edge and no row.
C21_RelateAddsOneEdge ==
    [][(DelStep("relate") /\ delres'.outcome = "returned") =>
          /\ Len(edges') = Len(edges) + 1
          /\ SubSeq(edges', 1, Len(edges)) = edges
          /\ edges'[Len(edges')] = [in |-> mem[delres'.obj].id,
                                    rel |-> delres'.relationship,
                                    out |-> delres'.target_id]
          /\ Cardinality(EdgesIn(edges', mem[delres'.obj].id, delres'.relationship,
                                 delres'.target_id)) =
               Cardinality(EdgesIn(edges, mem[delres'.obj].id, delres'.relationship,
                                   delres'.target_id)) + 1
          /\ Len(stmts') = Len(stmts) + 1
          /\ rows' = rows]_vars

\* C21 witness: three calls with the same arguments have left three 'reference'
\* edges from the Source to the Notebook.
C21_Witness ==
    /\ delres.op = "relate" /\ delres.outcome = "returned"
    /\ dops = 3
    /\ Cardinality(EdgesOf(<<"source", 1>>, "reference", <<"notebook", 1>>)) = 3

(***************************************************************************)
(* Claims about the validation in save().                                  *)
(***************************************************************************)
\* The texts that are empty or whitespace-only.
Blank == {"", " "}
\* The stored row of object o, if any.
StoredRow(o) == {r \in rows : r.id = mem[o].id}

\* No stored Notebook or Note row has a blank text.
NoBlankRow ==
    \A r \in rows : r.id[1] \in {"notebook", "note"} => r.text \notin Blank

\* C22: no step stores a Notebook or Note row with a blank text; while the text
\* of a Notebook or a Note is blank, a save() of it ends with InvalidInputError,
\* makes no store operation and leaves the stored row of the object as it was,
\* also when the text was assigned after a save.
C22_BlankSaveFailsBeforeStore ==
    [][/\ NoBlankRow'
       /\ \A o \in Objs :
          mem[o].text \in Blank =>
             /\ StoredRow(o)' = StoredRow(o)
             /\ mem'[o].id = mem[o].id
             /\ saves'[o] = saves[o]
             /\ nextKey' # nextKey => \E p \in Objs \ {o} : saves'[p] # saves[p]
             /\ sresult'[o] # sresult[o] => sresult'[o] = "InvalidInputError"]_vars

\* C22 witness: a stored Notebook and a stored Note were assigned a blank text
\* after their save; the next save of each has failed and the rows are as saved.
C22_Witness ==
    /\ \A o \in Objs :
          /\ mem[o].id # NoId
          /\ mem[o].text \in Blank
          /\ sresult[o] = "InvalidInputError"
          /\ \E r \in rows : r.id = mem[o].id /\ r.text = "x"
    /\ mem["a_note"].text = "" /\ mem["a_notebook"].text = " "

(***************************************************************************)
(* Claims about the insert loop of vectorize.                              *)
(***************************************************************************)
\* The chunk tasks of the rows this call has inserted, in insertion order.
InsertSeq == [k \in 1..Len(RunRows) |-> RunRows[k].order + 1]

\* C23 (as claimed): the rows of a successful run were inserted in increasing
\* chunk index, and the insert sequence is not the completion sequence.
C23_InsertNeverCompletionSequence ==
    Succeeded =>
        /\ \A k \in 1..Len(RunRows) : RunRows[k].order = k - 1
        /\ InsertSeq # completion

\* C23 (amended): every step that inserts rows inserts one row, the row of the
\* lowest chunk index not yet inserted by this call, whatever the order in
\* which the workers completed.
C23_InsertInIndexOrder ==
    [][Len(source_embedding') # Len(source_embedding) =>
          /\ Len(source_embedding') = Len(source_embedding) + 1
          /\ SubSeq(source_embedding', 1, Len(source_embedding)) = source_embedding
          /\ source_embedding'[Len(source_embedding')].order = Len(RunRows)
          /\ source_embedding'[Len(source_embedding')].content =
                surreal_clean(chunks[Len(RunRows) + 1])]_vars

\* C23 witness: the workers completed in the order 2, 3, 1 and the rows were
\* inserted in the order 1, 2, 3.
C23_Witness ==
    /\ Succeeded
    /\ completion = <<2, 3, 1>>
    /\ InsertSeq = <<1, 2, 3>>

\* C24: when the store fails on the insert of chunk k, the call ends with
\* DatabaseOperationError, the rows of chunks 0..k-1 it has inserted stay in the
\* store, and no row of chunks k..N-1 is inserted by the call.
C24_InsertFailureKeepsEarlierRows ==
    [][/\ (vpc = "inserting" /\ vpc' = "idle" /\ vresult' # "returned") =>
            /\ vresult' = "DatabaseOperationError"
            /\ source_embedding' = source_embedding
            /\ Len(RunRows) < Len(chunks)
            /\ \A j \in 1..Len(RunRows) :
                  /\ RunRows[j].order = j - 1
                  /\ RunRows[j].content = surreal_clean(chunks[j])
       /\ vpc = "idle" => source_embedding' = source_embedding]_vars

\* C24 witness: a call on 3 chunks has ended with DatabaseOperationError on the
\* insert of chunk 2, after the rows of chunks 0 and 1.
C24_Witness ==
    /\ Ended
    /\ vresult = "DatabaseOperationError"
    /\ embedRaised = {}
    /\ Len(chunks) = 3
    /\ InsertSeq = <<1, 2>>

\* C25: a step that inserts a row is taken when every embedding call of the
\* run has completed without failure, and a run in which an embedding call has
\* failed has inserted no row.
C25_NoInsertBeforeAllEmbedded ==
    [][/\ Len(source_embedding') # Len(source_embedding) =>
            /\ Running = {} /\ Queued = {}
            /\ \A i \in 1..Len(chunks) : fut[i] = "ok" /\ embedCalls[i] = 1
            /\ Len(completion) = Len(chunks)
            /\ embedRaised = {}
       /\ embedRaised' # {} => Len(RunRows') = 0]_vars

\* C25 witness: the first row of a run of 3 chunks is inserted, after the three
\* embedding calls have completed in the order 3, 1, 2.
C25_Witness ==
    /\ vpc = "inserting"
    /\ Len(chunks) = 3
    /\ completion = <<3, 1, 2>>
    /\ Len(RunRows) = 1

\* The rows of the source with order i.
AllRowsOfOrder(i) == {k \in 1..Len(source_embedding) : source_embedding[k].order = i}
\* Every call so far had a provider and met no failure, and none is in progress.
AllRunsSucceeded ==
    /\ vpc = "idle" /\ vresult = "returned" /\ Len(chunks) >= 1
    /\ faults = 0 /\ switches = 0 /\ embedding_model # None

\* C26: no step removes or changes a row of the source; after k successful
\* runs on the unchanged text of N chunks the source has k * N rows and every
\* order 0..N-1 occurs k times.
C26_RunsAccumulateRows ==
    [][/\ Len(source_embedding') >= Len(source_embedding)
       /\ SubSeq(source_embedding', 1, Len(source_embedding)) = source_embedding
       /\ AllRunsSucceeded' =>
            /\ Len(source_embedding') = runs' * Len(chunks')
            /\ \A i \in 0..(Len(chunks') - 1) : Cardinality(AllRowsOfOrder(i)') = runs'
            /\ \A k \in 1..Len(source_embedding') :
                  source_embedding'[k].order \in 0..(Len(chunks') - 1)]_vars

\* C26 witness: two successful runs on a text of 3 chunks have left 6 rows, two
\* of each order.
C26_Witness ==
    /\ AllRunsSucceeded
    /\ runs = 2
    /\ Len(chunks) = 3
    /\ Len(source_embedding) = 6
    /\ \A i \in 0..2 : Cardinality(AllRowsOfOrder(i)) = 2

(***************************************************************************)
(* Claims about the provider a call embeds with.                           *)
(***************************************************************************)
\* C27: a vectorize() and an add_insight() call take the provider that is in
\* the registry when they start; a switch of the registry leaves the provider
\* of the calls in flight as it is; every row a call writes is embedded by the
\* provider the call started with.
C27_ProviderFixedPerCall ==
    [][/\ runs' = runs + 1 => vmodel' = embedding_model
       /\ runs' = runs => vmodel' = vmodel
       /\ calls' = calls + 1 => imodel'["c1"] = embedding_model
       /\ calls' = calls => imodel' = imodel
       /\ \A i \in 1..Len(fut') :
             fut'[i] = "ok" => futres'[i][2] = embed(vmodel', chunks'[i])
       /\ \A k \in 1..Len(RunRows') :
             RunRows'[k].embedding = embed(vmodel', chunks'[RunRows'[k].order + 1])
       /\ (ipc["c1"] = "looked" /\ iresult'["c1"] = "returned") =>
             \E k \in 1..Len(source_insight') :
                /\ k > Len(source_insight) \/ source_insight'[k] # source_insight[k]
                /\ source_insight'[k].embedding =
                      embedding_or_empty(imodel["c1"], iargs["c1"][3])]_vars

\* C27 witness: the registry was switched while a vectorize() call was inserting
\* and an add_insight() call had made its lookup; the rows inserted so far carry
\* the first provider.
C27_Witness ==
    /\ switches = 1
    /\ vpc = "inserting" /\ runs = 1 /\ Len(RunRows) >= 1
    /\ vmodel \in Providers /\ embedding_model \in Providers /\ vmodel # embedding_model
    /\ ipc["c1"] = "looked" /\ calls = 1 /\ imodel["c1"] = vmodel

(***************************************************************************)
(* Claims about the rows add_insight leaves alone.                         *)
(***************************************************************************)
\* The pair of caller p's call, and the rows of the pair created before row k.
PairOf(p) == <<iargs[p][1], iargs[p][2]>>
OlderRows(pair, k) ==
    {j \in PairRows(pair[1], pair[2]) : source_insight[j].created < source_insight[k].created}
\* Caller p's write step has returned.
Wrote(p) == ipc[p] = "looked" /\ ipc'[p] = "idle" /\ iresult'[p] = "returned"

\* C28: no step removes a row or changes the source, insight_type or created
\* of a row; the update branch changes only the row its lookup returned, the
\* most recently created row of the pair, and only its content, embedding and
\* updated; a call whose lookup saw two or more rows of the pair leaves the
\* number of rows of the pair and every older row as they were.
C28_UpdateTouchesOnlyNewestRow ==
    [][/\ Len(source_insight') >= Len(source_insight)
       /\ \A k \in 1..Len(source_insight) :
             /\ source_insight'[k].source = source_insight[k].source
             /\ source_insight'[k].insight_type = source_insight[k].insight_type
             /\ source_insight'[k].created = source_insight[k].created
       /\ \A p \in Callers :
             (ipc[p] = "idle" /\ ipc'[p] = "looked" /\ ifound'[p] # 0) =>
                /\ ifound'[p] \in PairRows(iargs'[p][1], iargs'[p][2])
                /\ \A j \in PairRows(iargs'[p][1], iargs'[p][2]) :
                      source_insight[j].created <= source_insight[ifound'[p]].created
       /\ \A p \in Callers :
             (Wrote(p) /\ ifound[p] # 0) =>
                /\ Len(source_insight') = Len(source_insight)
                /\ \A k \in 1..Len(source_insight) :
                      k # ifound[p] => source_insight'[k] = source_insight[k]
                /\ source_insight'[ifound[p]].content = surreal_clean(iargs[p][3])
       /\ \A p \in Callers :
             (Wrote(p) /\ ifound[p] # 0 /\ OlderRows(PairOf(p), ifound[p]) # {}) =>
                /\ ifound[p] = existing_insights(iargs[p][1], iargs[p][2])
                /\ \A j \in OlderRows(PairOf(p), ifound[p]) :
                      source_insight'[j] = source_insight[j]]_vars

\* C28 witness: a pair has two rows; a call made after both existed has
\* overwritten the newer row, and the older row still holds the content it was
\* created with.
C28_Witness ==
    \E p \in Callers :
        /\ iresult[p] = "returned" /\ ipc[p] = "idle" /\ ifound[p] # 0
        /\ Cardinality(PairRows(iargs[p][1], iargs[p][2])) = 2
        /\ \E j \in OlderRows(PairOf(p), ifound[p]) :
              /\ source_insight[j].updated = source_insight[j].created
              /\ source_insight[j].content # source_insight[ifound[p]].content
        /\ source_insight[ifound[p]].updated > source_insight[ifound[p]].created
        /\ source_insight[ifound[p]].content = surreal_clean(iargs[p][3])

(***************************************************************************)
(* Claims about the RecordModel cache.                                     *)
(***************************************************************************)
\* C29 (as claimed): every object in the singleton cache has completed its
\* first initialisation, and a construction whose load fails leaves no object
\* of the type in the cache.
C29_CachedInstancesInitialized ==
    /\ \A t \in RecordTypes : _instances[t] # 0 => heap[_instances[t]].initialized
    /\ (recres.op = "construct" /\ recres.outcome = "StorageError") =>
          _instances[recres.type] = 0

(***************************************************************************)
(* Claims about the row an update-branch save leaves.                      *)
(***************************************************************************)
\* The fields of the data save() passes to the store for the types of the
\* model: the declared fields, created, updated and embedding.
DataFields == {"id", "text", "created", "updated", "embedding"}

\* C30: a save of an object that has an id leaves one stored row of that id,
\* which holds the object's declared non-null fields, its created, the new
\* updated and the embedding if one was computed, and no other field: a field
\* of the row before the save that is not among these is gone; every other row
\* is as it was.
C30_UpdateReplacesWholeRow ==
    [][\A o \in UpdObjs :
          (SavedNow(o) /\ mem[o].id # NoId) =>
              LET new == {r \in rows' : r.id = mem[o].id}
              IN  /\ Cardinality(new) = 1
                  /\ {r \in rows' : r.id # mem[o].id} = {r \in rows : r.id # mem[o].id}
                  /\ \A r \in new :
                        /\ DOMAIN r = DataFields
                        /\ r.text = IF mem[o].text = None THEN Missing ELSE mem[o].text
                        /\ r.created = mem[o].created
                        /\ r.updated = strftime(clock)
                        /\ r.embedding =
                              IF ClassOf(o) = "Note" /\ mem[o].text # None
                              THEN embedding_or_empty(embedding_model, mem[o].text)
                              ELSE NoVector]_vars

\* C30 witness: the SourceInsight and the SourceEmbedding were saved with a new
\* content; their rows have lost source, order and the embedding.  The Note was
\* saved without content; its row has lost content and embedding.
C30_Witness ==
    /\ \A o \in UpdObjs : sresult[o] = "returned" /\ saves[o] = 1
    /\ \A o \in {"an_insight", "an_embedding"} :
          \E r \in rows :
             /\ r.id = UpdId(o) /\ r.text = "y"
             /\ DOMAIN UpdRow(o) \ DOMAIN r # {}
             /\ r.embedding = NoVector
    /\ \E r \in rows : r.id = UpdId("a_note") /\ r.text = Missing /\ r.embedding = NoVector

====
